---- MODULE Spec2Model ----
(***************************************************************************)
(* RenderLayer (src/app/view/renderLayer.ts): a keyed collection of        *)
(* features with a counter, a colour, an optional physical layer, and two  *)
(* serialisation formats.                                                  *)
(*                                                                         *)
(* JavaScript values are modelled as follows.                              *)
(*   - `undefined` is the string "undefined" (what String(undefined) and a *)
(*     property key made from undefined give), `null` is "null".           *)
(*   - An object used as a string-keyed map (this.features, json.features) *)
(*     is a sequence of [key, val] entries in insertion order, the order   *)
(*     for..in visits them in.                                             *)
(*   - A value passed to a method is a record [kind, ref, ID, text]: kind  *)
(*     is the class ("Feature", "EdgeFeature") or the primitive type, ref  *)
(*     the object's identity, ID the value of its .ID property, text the   *)
(*     content of a string.                                                *)
(*   - The mutable field feature.layer lives in the variable featureLayer, *)
(*     indexed by the feature's identity.                                  *)
(*   - A thrown Error is the result tag of the call: the three messages    *)
(*     the class throws are named by the error kinds InvalidArgument,      *)
(*     NotFound and MalformedInput.                                        *)
(*   - Feature ids are ordinary strings: none is the name of a property of *)
(*     Object.prototype.                                                   *)
(***************************************************************************)
EXTENDS Integers, Sequences, FiniteSets, TLC

VARIABLES layers, featureLayer, lastCall, loaded

vars == <<layers, featureLayer, lastCall, loaded>>

(***************************************************************************)
(* Bounds of the model.                                                    *)
(***************************************************************************)
\* Feature objects that exist in the program (two objects share each id).
NumFeatures == 3
\* addFeature is not called once featureCount has reached MaxCount.
MaxCount == 3

(***************************************************************************)
(* Values.                                                                 *)
(***************************************************************************)
Undefined == "undefined"
Null == "null"
OK == "ok"
InvalidArgument == "InvalidArgument"
NotFound == "NotFound"
MalformedInput == "MalformedInput"

\* The RenderLayer instances (named by the ids generateID gave them), the
\* Layer objects, layer types and colours callers use, and the ids
\* generateID can return.
Stores == {"A", "B"}
PhysicalLayers == {"L1"}
LayerTypes == {"FLOW", "CONTROL"}
Colors == {"", "red"}
UUIDs == {"A", "B", "C"}

FeatureID(n) == "f" \o ToString(n)

\* Feature object number i: objects 2k-1 and 2k carry the same id; the even
\* ones are edge features.
Feat(i) ==
    [kind |-> IF i % 2 = 0 THEN "EdgeFeature" ELSE "Feature",
     ref |-> i, ID |-> FeatureID((i + 1) \div 2), text |-> ""]

StringValue(t) == [kind |-> "string", ref |-> 0, ID |-> Undefined, text |-> t]
BooleanValue(b) ==
    [kind |-> "boolean", ref |-> 0, ID |-> Undefined,
     text |-> IF b THEN "true" ELSE "false"]
UndefinedValue == [kind |-> "undefined", ref |-> 0, ID |-> Undefined, text |-> ""]

FeaturePool == {Feat(i) : i \in 1..NumFeatures}
FeatureIDs == {f.ID : f \in FeaturePool}
\* Strings a caller may pass as an id: the ids in use and one no feature has.
IDStrings == FeatureIDs \cup {FeatureID(0)}
\* Values a caller may pass where a feature is expected.
Arguments == FeaturePool \cup {StringValue(FeatureID(1))}

(***************************************************************************)
(* String-keyed objects.                                                   *)
(***************************************************************************)
HasOwnProperty(obj, key) == \E i \in 1..Len(obj) : obj[i].key = key

Lookup(obj, key) ==
    IF HasOwnProperty(obj, key)
    THEN obj[CHOOSE i \in 1..Len(obj) : obj[i].key = key].val
    ELSE UndefinedValue

Assign(obj, key, val) ==
    IF HasOwnProperty(obj, key)
    THEN [i \in 1..Len(obj) |->
            IF obj[i].key = key THEN [key |-> key, val |-> val] ELSE obj[i]]
    ELSE Append(obj, [key |-> key, val |-> val])

DeleteKey(obj, key) == SelectSeq(obj, LAMBDA e : e.key # key)

Keys(obj) == {obj[i].key : i \in 1..Len(obj)}

Prop(json, k) == IF k \in DOMAIN json THEN json[k] ELSE Undefined

Truthy(x) == x # Undefined /\ x # Null /\ x # ""

Default(x, d) == IF x = Undefined THEN d ELSE x

(***************************************************************************)
(* The class.  Every method is an operator from the receiver, the heap of  *)
(* feature.layer fields and the arguments to the outcome of the call:      *)
(* [layer, heap, result, ret].                                             *)
(***************************************************************************)
Return(layer, heap, ret) ==
    [layer |-> layer, heap |-> heap, result |-> OK, ret |-> ret]

Throw(layer, heap, error) ==
    [layer |-> layer, heap |-> heap, result |-> error, ret |-> UndefinedValue]

RenderLayerNew(name, type, group, id) ==
    [id |-> id,
     name |-> Default(name, "New Layer"),
     type |-> Default(type, "FLOW"),
     features |-> <<>>,
     featureCount |-> 0,
     color |-> Undefined,
     physicalLayer |-> Null]

IsAFeature(feature) == feature.kind = "Feature" \/ feature.kind = "EdgeFeature"

ContainsFeatureID(layer, featureID) == HasOwnProperty(layer.features, featureID)

ContainsFeature(layer, heap, feature) ==
    IF ~IsAFeature(feature)
    THEN Throw(layer, heap, InvalidArgument)
    ELSE Return(layer, heap, BooleanValue(HasOwnProperty(layer.features, feature.ID)))

\* addFeature that keeps an entry already stored under the id.
AddFeature_KeepExisting(layer, heap, feature) ==
    IF ~IsAFeature(feature)
    THEN Throw(layer, heap, InvalidArgument)
    ELSE Return([layer EXCEPT !.features =
                                  IF HasOwnProperty(@, feature.ID) THEN @
                                  ELSE Assign(@, feature.ID, feature),
                              !.featureCount = @ + 1],
                [heap EXCEPT ![feature.ref] = layer.physicalLayer],
                UndefinedValue)

\* addFeature without the __ensureIsAFeature check.
AddFeature_NoCheck(layer, heap, feature) ==
    Return([layer EXCEPT !.features = Assign(@, feature.ID, feature),
                         !.featureCount = @ + 1],
           IF feature.ref \in DOMAIN heap
           THEN [heap EXCEPT ![feature.ref] = layer.physicalLayer] ELSE heap,
           UndefinedValue)

\* addFeature that leaves feature.layer alone.
AddFeature_NoBackReference(layer, heap, feature) ==
    IF ~IsAFeature(feature)
    THEN Throw(layer, heap, InvalidArgument)
    ELSE Return([layer EXCEPT !.features = Assign(@, feature.ID, feature),
                              !.featureCount = @ + 1],
                heap, UndefinedValue)

AddFeature(layer, heap, feature) ==
    IF ~IsAFeature(feature)
    THEN Throw(layer, heap, InvalidArgument)
    ELSE Return([layer EXCEPT !.features = Assign(@, feature.ID, feature),
                              !.featureCount = @ + 1],
                [heap EXCEPT ![feature.ref] = layer.physicalLayer],
                UndefinedValue)

\* getFeature without the __ensureFeatureIDExists check.
GetFeature_NoEnsure(layer, heap, featureID) ==
    Return(layer, heap, Lookup(layer.features, featureID))

GetFeature(layer, heap, featureID) ==
    IF ~ContainsFeatureID(layer, featureID)
    THEN Throw(layer, heap, NotFound)
    ELSE Return(layer, heap, Lookup(layer.features, featureID))

\* removeFeatureByID without the __ensureFeatureIDExists check.
RemoveFeatureByID_NoEnsure(layer, heap, featureID) ==
    Return([layer EXCEPT !.featureCount = @ - 1,
                         !.features = DeleteKey(@, featureID)],
           heap, UndefinedValue)

\* removeFeatureByID that forgets the counter.
RemoveFeatureByID_NoDecrement(layer, heap, featureID) ==
    IF ~ContainsFeatureID(layer, featureID)
    THEN Throw(layer, heap, NotFound)
    ELSE Return([layer EXCEPT !.features = DeleteKey(@, featureID)],
                heap, UndefinedValue)

\* removeFeatureByID that also clears the removed feature's layer.
RemoveFeatureByID_ClearsLayer(layer, heap, featureID) ==
    IF ~ContainsFeatureID(layer, featureID)
    THEN Throw(layer, heap, NotFound)
    ELSE Return([layer EXCEPT !.featureCount = @ - 1,
                              !.features = DeleteKey(@, featureID)],
                [heap EXCEPT ![Lookup(layer.features, featureID).ref] = Null],
                UndefinedValue)

RemoveFeatureByID(layer, heap, featureID) ==
    IF ~ContainsFeatureID(layer, featureID)
    THEN Throw(layer, heap, NotFound)
    ELSE Return([layer EXCEPT !.featureCount = @ - 1,
                              !.features = DeleteKey(@, featureID)],
                heap, UndefinedValue)

RemoveFeature(layer, heap, feature) == RemoveFeatureByID(layer, heap, feature.ID)

(***************************************************************************)
(* Serialisation.  Feature.toInterchangeV1, Feature.fromInterchangeV1 and  *)
(* Feature.fromJSON belong to the Feature class: a serialised feature      *)
(* carries the feature's id, and deserialising builds a new Feature object *)
(* (identity ref, no layer yet) with that id.                              *)
(***************************************************************************)
FeatureToInterchangeV1(feature) == [id |-> feature.ID]

FeatureFromInterchangeV1(json, ref) ==
    [kind |-> "Feature", ref |-> ref, ID |-> json.id, text |-> ""]

FeatureFromJSON(json, ref) ==
    [kind |-> "Feature", ref |-> ref, ID |-> json.id, text |-> ""]

\* The heap with a newly constructed feature in it.
Allocate(heap, ref) ==
    [r \in DOMAIN heap \cup {ref} |-> IF r \in DOMAIN heap THEN heap[r] ELSE Null]

\* A heap without the objects only a dropped layer referred to.
Collect(heap) == [r \in 1..NumFeatures |-> heap[r]]

FeaturesInterchangeV1(layer) ==
    [i \in 1..Len(layer.features) |-> FeatureToInterchangeV1(layer.features[i].val)]

ToInterchangeV1(layer) ==
    [id |-> layer.id,
     type |-> layer.type,
     group |-> "0",
     features |-> FeaturesInterchangeV1(layer),
     color |-> layer.color]

RECURSIVE LoadFeaturesFromInterchangeV1(_, _, _, _)
LoadFeaturesFromInterchangeV1(layer, heap, json, i) ==
    IF i > Len(json)
    THEN Return(layer, heap, UndefinedValue)
    ELSE LET feature == FeatureFromInterchangeV1(json[i], NumFeatures + i)
             out == AddFeature(layer, Allocate(heap, feature.ref), feature)
         IN  LoadFeaturesFromInterchangeV1(out.layer, out.heap, json, i + 1)

RECURSIVE LoadFeaturesFromJSON(_, _, _, _)
LoadFeaturesFromJSON(layer, heap, json, i) ==
    IF i > Len(json)
    THEN Return(layer, heap, UndefinedValue)
    ELSE LET feature == FeatureFromJSON(json[i].val, NumFeatures + i)
             out == AddFeature(layer, Allocate(heap, feature.ref), feature)
         IN  LoadFeaturesFromJSON(out.layer, out.heap, json, i + 1)

\* The place of a layer that was not built.
NoLayer == RenderLayerNew(Undefined, Undefined, Undefined, "none")

FromInterchangeV1(json, heap, id) ==
    LET newLayer == RenderLayerNew(Prop(json, "type"), Prop(json, "group"), Undefined, id)
        out == LoadFeaturesFromInterchangeV1(newLayer, heap, json.features, 1)
    IN  Return(IF Truthy(Prop(json, "color"))
               THEN [out.layer EXCEPT !.color = json.color]
               ELSE out.layer,
               out.heap, UndefinedValue)

FromJSON(json, heap, id) ==
    IF "features" \notin DOMAIN json
    THEN Throw(NoLayer, heap, MalformedInput)
    ELSE LET newLayer == RenderLayerNew(Prop(json, "type"), Undefined, Undefined, id)
             out == LoadFeaturesFromJSON(newLayer, heap, json.features, 1)
         IN  Return(IF Truthy(Prop(json, "color"))
                    THEN [out.layer EXCEPT !.color = json.color]
                    ELSE out.layer,
                    out.heap, UndefinedValue)

\* Legacy JSON layers a caller may pass: with or without each of type,
\* color and features, the features keyed by their ids.
LegacyFeatures ==
    {<<>>}
    \cup {<<[key |-> a, val |-> [id |-> a]]>> : a \in FeatureIDs}
    \cup {<<[key |-> p[1], val |-> [id |-> p[1]]], [key |-> p[2], val |-> [id |-> p[2]]]>> :
            p \in {q \in FeatureIDs \X FeatureIDs : q[1] # q[2]}}

WithType(json, type) ==
    IF type = Undefined THEN json
    ELSE [k \in DOMAIN json \cup {"type"} |-> IF k = "type" THEN type ELSE json[k]]

WithColor(json, color) ==
    IF color = Undefined THEN json
    ELSE [k \in DOMAIN json \cup {"color"} |-> IF k = "color" THEN color ELSE json[k]]

LegacyInputs ==
    {WithColor(WithType(base, type), color) :
        base \in {[name |-> "layer"]}
                  \cup {[name |-> "layer", features |-> fs] : fs \in LegacyFeatures},
        type \in LayerTypes \cup {Undefined},
        color \in Colors \cup {Undefined}}

(***************************************************************************)
(* Calls on the live layers.  lastCall is the call just made (its          *)
(* receiver, argument, outcome and the receiver's featureCount before it); *)
(* its prevAdd is the feature the call before it added to the same         *)
(* receiver, if that call was a successful addFeature.                     *)
(***************************************************************************)
NoCall ==
    [op |-> "none", self |-> "A", arg |-> UndefinedValue, result |-> OK,
     ret |-> UndefinedValue, count |-> 0, prevAdd |-> UndefinedValue]

\* loaded is what the static factory just called returned (or threw), with
\* the json it was given; a layer so built lives until the next call.
NoLoad == [result |-> "none", json |-> [name |-> "none"], layer |-> NoLayer]

Call(op, s, arg, out) ==
    /\ layers' = [layers EXCEPT ![s] = out.layer]
    /\ featureLayer' = Collect(out.heap)
    /\ lastCall' = [op |-> op, self |-> s, arg |-> arg, result |-> out.result,
                    ret |-> out.ret, count |-> layers[s].featureCount,
                    prevAdd |-> IF lastCall.op = "addFeature" /\ lastCall.result = OK
                                   /\ lastCall.self = s
                                THEN lastCall.arg ELSE UndefinedValue]
    /\ loaded' = NoLoad

CallAddFeature(s, v) ==
    /\ layers[s].featureCount < MaxCount
    /\ Call("addFeature", s, v, AddFeature(layers[s], featureLayer, v))

CallRemoveFeature(s, v) ==
    Call("removeFeature", s, v, RemoveFeature(layers[s], featureLayer, v))

CallRemoveFeatureByID(s, id) ==
    Call("removeFeatureByID", s, StringValue(id),
         RemoveFeatureByID(layers[s], featureLayer, id))

CallGetFeature(s, id) ==
    Call("getFeature", s, StringValue(id), GetFeature(layers[s], featureLayer, id))

CallContainsFeature(s, v) ==
    Call("containsFeature", s, v, ContainsFeature(layers[s], featureLayer, v))

CallContainsFeatureID(s, id) ==
    Call("containsFeatureID", s, StringValue(id),
         Return(layers[s], featureLayer, BooleanValue(ContainsFeatureID(layers[s], id))))

SetPhysicalLayer(s, l) ==
    Call("physicalLayer", s, StringValue(l),
         Return([layers[s] EXCEPT !.physicalLayer = l], featureLayer, UndefinedValue))

SetColor(s, c) ==
    Call("color", s, StringValue(c),
         Return([layers[s] EXCEPT !.color = c], featureLayer, UndefinedValue))

\* RenderLayer.fromInterchangeV1(layers[s].toInterchangeV1())
CallRoundTripV1(s) ==
    \E id \in UUIDs \ {layers[t].id : t \in Stores} :
        LET json == ToInterchangeV1(layers[s])
            out == FromInterchangeV1(json, Collect(featureLayer), id)
        IN  /\ loaded' = [result |-> out.result, json |-> json, layer |-> out.layer]
            /\ featureLayer' = out.heap
            /\ lastCall' = [NoCall EXCEPT !.op = "fromInterchangeV1", !.self = s,
                                          !.result = out.result]
            /\ UNCHANGED layers

\* RenderLayer.fromJSON(json)
CallFromJSON(json) ==
    \E id \in UUIDs \ {layers[t].id : t \in Stores} :
        LET out == FromJSON(json, Collect(featureLayer), id)
        IN  /\ loaded' = [result |-> out.result, json |-> json, layer |-> out.layer]
            /\ featureLayer' = out.heap
            /\ lastCall' = [NoCall EXCEPT !.op = "fromJSON", !.result = out.result]
            /\ UNCHANGED layers

Init ==
    /\ layers = [s \in Stores |->
                   RenderLayerNew(Undefined, Undefined, Undefined, s)]
    /\ featureLayer = [r \in 1..NumFeatures |-> Null]
    /\ lastCall = NoCall
    /\ loaded = NoLoad

\* The calls a client makes on one layer, A, in any order.
Next ==
    \E s \in {"A"} :
        \/ \E v \in Arguments : CallAddFeature(s, v)
        \/ \E v \in Arguments : CallRemoveFeature(s, v)
        \/ \E id \in IDStrings : CallRemoveFeatureByID(s, id)
        \/ \E id \in IDStrings : CallGetFeature(s, id)
        \/ \E v \in Arguments : CallContainsFeature(s, v)
        \/ \E id \in IDStrings : CallContainsFeatureID(s, id)
        \/ \E l \in PhysicalLayers \cup {Null} : SetPhysicalLayer(s, l)
        \/ \E c \in Colors \cup {Undefined} : SetColor(s, c)

Spec == Init /\ [][Next]_vars

\* Two layers sharing the pool of features.  Layer A has been given a
\* physical layer before the first call, layer B has none; the calls are
\* adds and removes.
InitShared ==
    /\ layers = [s \in Stores |->
                   [RenderLayerNew(Undefined, Undefined, Undefined, s)
                      EXCEPT !.physicalLayer = IF s = "A" THEN "L1" ELSE Null]]
    /\ featureLayer = [r \in 1..NumFeatures |-> Null]
    /\ lastCall = NoCall
    /\ loaded = NoLoad

NextShared ==
    \E s \in Stores :
        \/ \E v \in FeaturePool : CallAddFeature(s, v)
        \/ \E v \in FeaturePool : CallRemoveFeature(s, v)

SpecShared == InitShared /\ [][NextShared]_vars

\* One layer of any type, filled and coloured by its caller, serialised and
\* deserialised.
InitCodec ==
    /\ \E type \in LayerTypes :
          layers = [s \in Stores |-> RenderLayerNew(Undefined, type, Undefined, s)]
    /\ featureLayer = [r \in 1..NumFeatures |-> Null]
    /\ lastCall = NoCall
    /\ loaded = NoLoad

NextCodec ==
    \/ \E v \in FeaturePool : CallAddFeature("A", v)
    \/ \E id \in FeatureIDs : CallRemoveFeatureByID("A", id)
    \/ \E c \in Colors \cup {Undefined} : SetColor("A", c)
    \/ CallRoundTripV1("A")
    \/ \E json \in LegacyInputs : CallFromJSON(json)

SpecCodec == InitCodec /\ [][NextCodec]_vars

(***************************************************************************)
(* Properties.                                                             *)
(***************************************************************************)
\* Feature f is the value stored under its id in layer s.
Holds(s, f) == Lookup(layers[s].features, f.ID) = f

\* The id a remove call looks up: the argument's ID for removeFeature, the
\* argument itself for removeFeatureByID.
RemovedKey(call) == IF call.op = "removeFeature" THEN call.arg.ID ELSE call.arg.text

\* C1: in every reachable state, featureCount equals the number of entries
\* of the features mapping (also after addFeature of an id already present).
C1_CountEqualsEntries ==
    \A s \in Stores : layers[s].featureCount = Len(layers[s].features)

\* C2: fromInterchangeV1(s.toInterchangeV1()) has the layerType of s, the
\* color of s and exactly the feature ids of s.
C2_RoundTrip ==
    lastCall.op = "fromInterchangeV1" =>
        /\ loaded.result = OK
        /\ loaded.layer.type = layers[lastCall.self].type
        /\ loaded.layer.color = layers[lastCall.self].color
        /\ Keys(loaded.layer.features) = Keys(layers[lastCall.self].features)

\* C3: addFeature(f) of a feature f succeeds; afterwards containsFeature(f)
\* is true, getFeature(f.ID) returns f itself, featureCount is one greater,
\* every entry under another id is unchanged, and f.layer is the physical
\* layer the store had when called.
C3_AddFeature ==
    [][(lastCall'.op = "addFeature" /\ IsAFeature(lastCall'.arg)) =>
         LET f == lastCall'.arg
             before == layers[lastCall'.self]
             after == layers'[lastCall'.self]
         IN  /\ lastCall'.result = OK
             /\ ContainsFeature(after, featureLayer', f).result = OK
             /\ ContainsFeature(after, featureLayer', f).ret = BooleanValue(TRUE)
             /\ GetFeature(after, featureLayer', f.ID).result = OK
             /\ GetFeature(after, featureLayer', f.ID).ret = f
             /\ after.featureCount = before.featureCount + 1
             /\ \A id \in IDStrings \ {f.ID} :
                    /\ ContainsFeatureID(after, id) = ContainsFeatureID(before, id)
                    /\ Lookup(after.features, id) = Lookup(before.features, id)
             /\ featureLayer'[f.ref] = before.physicalLayer]_vars

\* An add that replaced another object stored under the same id, while
\* another id was stored too and the store had a physical layer.
C3_Witness ==
    /\ lastCall.op = "addFeature" /\ lastCall.result = OK
    /\ lastCall.arg = Feat(2)
    /\ Holds("A", Feat(2)) /\ Holds("A", Feat(3))
    /\ layers["A"].featureCount = 3
    /\ featureLayer[1] = "L1" /\ featureLayer[2] = "L1"

\* C4: addFeature(f) immediately followed by removeFeatureByID(f.ID) on the
\* same store succeeds, leaves featureCount at its value before the add, and
\* containsFeatureID(f.ID) is false afterwards.
C4_AddThenRemove ==
    [][(/\ lastCall.op = "addFeature" /\ lastCall.result = OK
        /\ lastCall'.op = "removeFeatureByID"
        /\ lastCall'.self = lastCall.self
        /\ lastCall'.arg = StringValue(lastCall.arg.ID)) =>
         /\ lastCall'.result = OK
         /\ layers'[lastCall'.self].featureCount = lastCall.count
         /\ ~ContainsFeatureID(layers'[lastCall'.self], lastCall.arg.ID)]_vars

\* A removeFeatureByID that directly followed the add of a feature with that
\* id, in a store that still holds something else.
C4_Witness ==
    /\ lastCall.op = "removeFeatureByID" /\ lastCall.result = OK
    /\ IsAFeature(lastCall.prevAdd)
    /\ lastCall.prevAdd.ID = lastCall.arg.text
    /\ layers[lastCall.self].featureCount >= 1

\* C5: getFeature(id) and removeFeatureByID(id) of an id with no entry fail
\* with NotFound and change neither the mapping nor featureCount.
C5_NotFound ==
    [][(/\ lastCall'.op \in {"getFeature", "removeFeatureByID"}
        /\ ~ContainsFeatureID(layers[lastCall'.self], lastCall'.arg.text)) =>
         /\ lastCall'.result = NotFound
         /\ layers' = layers
         /\ featureLayer' = featureLayer]_vars

\* A failed removeFeatureByID of the id of a feature that was added (its
\* layer was set by an add) and is no longer stored.
C5_Witness ==
    /\ lastCall.op = "removeFeatureByID" /\ lastCall.result = NotFound
    /\ lastCall.arg = StringValue(Feat(3).ID)
    /\ featureLayer[3] = "L1"
    /\ layers["A"].featureCount >= 1

\* C6: addFeature and containsFeature of a value that is neither a Feature
\* nor an EdgeFeature fail with InvalidArgument and change neither
\* featureCount nor the mapping.
C6_InvalidArgument ==
    [][(/\ lastCall'.op \in {"addFeature", "containsFeature"}
        /\ ~IsAFeature(lastCall'.arg)) =>
         /\ lastCall'.result = InvalidArgument
         /\ layers' = layers
         /\ featureLayer' = featureLayer]_vars

\* A failed addFeature of a string into a store that holds features.
C6_Witness ==
    /\ lastCall.op = "addFeature" /\ lastCall.result = InvalidArgument
    /\ lastCall.arg.kind = "string"
    /\ Len(layers["A"].features) >= 1

\* C7 as claimed: no feature is held by two stores at once, and a feature
\* held by a store has that store's physical layer as its layer.
C7_ExclusiveOwnership ==
    \A f \in FeaturePool :
        /\ \A s \in Stores, t \in Stores : Holds(s, f) /\ Holds(t, f) => s = t
        /\ \A s \in Stores : Holds(s, f) => featureLayer[f.ref] = layers[s].physicalLayer

\* C7 as amended: a feature's layer is changed by addFeature of that feature
\* and by nothing else, and addFeature sets it to the physical layer of the
\* store it is called on; so it is the physical layer of the store that
\* added the feature last, whichever stores hold the feature.
C7_BackReference ==
    [][\A f \in FeaturePool :
         IF lastCall'.op = "addFeature" /\ lastCall'.arg = f
         THEN featureLayer'[f.ref] = layers[lastCall'.self].physicalLayer
         ELSE featureLayer'[f.ref] = featureLayer[f.ref]]_vars

\* A feature held by both stores at once, just added to the one whose
\* physical layer differs from the other's.
C7_Witness ==
    /\ Holds("A", Feat(1)) /\ Holds("B", Feat(1))
    /\ lastCall.op = "addFeature" /\ lastCall.self = "A" /\ lastCall.arg = Feat(1)
    /\ featureLayer[1] = "L1"
    /\ layers["B"].physicalLayer # featureLayer[1]

\* C8: fromJSON(json) fails with MalformedInput and builds no layer when json
\* has no own features property; otherwise it returns a layer with one
\* feature per entry of json.features, layerType json.type, and color
\* json.color if present and unset otherwise.
C8_FromJSON ==
    lastCall.op = "fromJSON" =>
        IF "features" \notin DOMAIN loaded.json
        THEN loaded.result = MalformedInput /\ loaded.layer = NoLayer
        ELSE /\ loaded.result = OK
             /\ Len(loaded.layer.features) = Len(loaded.json.features)
             /\ "type" \in DOMAIN loaded.json => loaded.layer.type = loaded.json.type
             /\ loaded.layer.color = Prop(loaded.json, "color")

\* C9: removeFeature(f) and removeFeatureByID(f.ID) on a store that has an
\* entry under the id remove that entry alone, decrement featureCount by
\* one, and leave every other entry, the store's id, type, color and
\* physical layer and every feature's layer as they were; removeFeature(f)
\* on a store with no such entry fails with NotFound.
C9_Remove ==
    [][(lastCall'.op \in {"removeFeature", "removeFeatureByID"}) =>
         LET key == RemovedKey(lastCall')
             before == layers[lastCall'.self]
             after == layers'[lastCall'.self]
         IN  IF ContainsFeatureID(before, key)
             THEN /\ lastCall'.result = OK
                  /\ Keys(after.features) = Keys(before.features) \ {key}
                  /\ Len(after.features) = Len(before.features) - 1
                  /\ after.featureCount = before.featureCount - 1
                  /\ \A id \in IDStrings \ {key} :
                         Lookup(after.features, id) = Lookup(before.features, id)
                  /\ after.id = before.id
                  /\ after.type = before.type
                  /\ after.color = before.color
                  /\ after.physicalLayer = before.physicalLayer
                  /\ featureLayer' = featureLayer
             ELSE /\ lastCall'.result = NotFound
                  /\ layers' = layers]_vars

\* A removeFeature that took one of two entries out of a store with a
\* physical layer, the removed feature keeping its layer.
C9_Witness ==
    /\ lastCall.op = "removeFeature" /\ lastCall.result = OK
    /\ IsAFeature(lastCall.arg)
    /\ featureLayer[lastCall.arg.ref] = "L1"
    /\ layers["A"].physicalLayer = "L1"
    /\ layers["A"].color = "red"
    /\ Len(layers["A"].features) = 1
    /\ layers["A"].featureCount = lastCall.count - 1

\* C10: in every reachable state the number of entries of the features
\* mapping is at most featureCount, and featureCount is not negative.
C10_EntriesAtMostCount ==
    \A s \in Stores :
        /\ 0 <= layers[s].featureCount
        /\ Len(layers[s].features) <= layers[s].featureCount

\* After a removal, a store with entries whose counter exceeds their number.
C10_Witness ==
    /\ lastCall.op = "removeFeatureByID" /\ lastCall.result = OK
    /\ Len(layers["A"].features) >= 1
    /\ layers["A"].featureCount > Len(layers["A"].features)
====
